---- MODULE Spec2Model ----
(***************************************************************************)
(* The message-safety pipeline of OfOpsApi: POST /api/ai/reply, the        *)
(* consent affirmation and the moderation queue resolution, over the       *)
(* storage tables they read and write.  A message text is the sequence of  *)
(* its space-separated words; the classifier's twelve RegExp objects carry *)
(* the g flag, so each keeps its lastIndex between calls.                  *)
(***************************************************************************)
EXTENDS Integers, Sequences, FiniteSets, TLC

\* ------------------------------------------------------------------ bounds

\* Request-handling tasks that may be in flight at the same time.
NumTasks == 2
\* POST /api/ai/reply calls accepted in one behaviour.
MaxSubmits == 2
\* POST /api/consent/affirm calls in one behaviour.
MaxAffirms == 1
\* PUT /api/moderation/queue/:id calls in one behaviour.
MaxResolves == 2
\* Items in the moderation queue when the compliance score is read.
MaxQueue == 3

\* Longest text, in characters, given to the stop-word check on its own.
MaxChars == 5

Tasks == 1..NumTasks

\* ------------------------------------------------------------------- texts

\* The words of the message texts, with their lengths in characters.
WordLen(w) ==
  CASE w = "hey" -> 3
    [] w = "kill" -> 4
    [] w = "hotel" -> 5
    [] w = "baby" -> 4
    [] w = "stop" -> 4
    [] w = "STOP" -> 4
    [] w = "send" -> 4
    [] w = "pics" -> 4
    [] w = "no" -> 2
    [] OTHER -> 1

\* String.prototype.toLowerCase on a word.
toLowerCase(w) == IF w = "STOP" THEN "stop" ELSE w

\* The message texts submitted: each a sequence of words joined by one space.
Texts ==
  { <<"hey">>,
    <<"kill">>,
    <<"hotel">>,
    <<"baby">>,
    <<"hey", "STOP">>,
    <<"stop", "kill">>,
    <<"send", "pics", "no">> }

\* Offset of the first character of word i, and of the character after it.
RECURSIVE StartOf(_, _)
StartOf(t, i) == IF i = 1 THEN 0 ELSE StartOf(t, i - 1) + WordLen(t[i - 1]) + 1
EndOf(t, i) == StartOf(t, i) + WordLen(t[i])

\* ---------------------------------------------------------------- patterns

\* One alternative of a pattern: \b(first)\b alone (last = {}), or
\* \b(first)\b.*\b(last)\b with a greedy .* in between.
Alt(first, last) == [first |-> first, last |-> last]

PatternIds == {"e1", "e2", "e3", "b1", "b2", "b3", "b4", "b5", "s1", "s2", "s3", "s4"}

\* The RegExp literals, all with flags gi.  under.*18 has no \b after
\* "under", so its first word is any word that starts with "under".
Pattern(id) ==
  CASE id = "b1" -> << Alt({"fuck", "shit", "damn", "bitch"}, {}) >>
    [] id = "b2" -> << Alt({"meet", "meetup", "hotel", "address", "phone"}, {}) >>
    [] id = "b3" -> << Alt({"under", "kid", "minor", "teen", "child"}, {"18", "years", "age"}) >>
    [] id = "b4" -> << Alt({"suicide", "kill", "death", "harm"}, {}) >>
    [] id = "b5" -> << Alt({"drug", "cocaine", "heroin", "meth"}, {}) >>
    [] id = "s1" -> << Alt({"daddy", "baby", "little"}, {}) >>
    [] id = "s2" -> << Alt({"rape", "force", "non-consent"}, {}) >>
    [] id = "s3" -> << Alt({"send", "show", "pics", "nude"}, {"free", "no", "without"}) >>
    [] id = "s4" -> << Alt({"$20"}, {"cash", "paypal", "venmo"}) >>
    [] id = "e1" -> << Alt({"minor"}, {}), Alt({"under", "underage"}, {"18"}), Alt({"underage"}, {}) >>
    [] id = "e2" -> << Alt({"kill", "suicide", "harm", "violence"}, {}) >>
    [] id = "e3" -> << Alt({"personal", "real", "actual", "home"}, {"address", "location", "meet"}) >>

bannedPatterns == <<"b1", "b2", "b3", "b4", "b5">>
suspiciousPatterns == <<"s1", "s2", "s3", "s4">>
escalationPatterns == <<"e1", "e2", "e3">>

\* Whether alternative a matches text t starting at word i, and where the
\* match ends (the greedy .* runs to the last word of a.last).
AltMatches(a, t, i) ==
  /\ toLowerCase(t[i]) \in a.first
  /\ a.last = {} \/ \E j \in (i + 1)..Len(t) : toLowerCase(t[j]) \in a.last

AltEnd(a, t, i) ==
  IF a.last = {} THEN EndOf(t, i)
  ELSE LET js == {j \in (i + 1)..Len(t) : toLowerCase(t[j]) \in a.last}
           j == CHOOSE x \in js : \A y \in js : y <= x
       IN EndOf(t, j)

\* The end of the match of pattern id at word i (first alternative that
\* matches wins), 0 when none does.
MatchEndAt(id, t, i) ==
  LET alts == Pattern(id)
      ks == {k \in 1..Len(alts) : AltMatches(alts[k], t, i)}
  IN IF ks = {} THEN 0
     ELSE AltEnd(alts[CHOOSE k \in ks : \A m \in ks : k <= m], t, i)

\* The matches of every pattern in every text, worked out once: for word i
\* of t, the end of the match that starts there (0 for none), and the
\* offset of the word.
MatchEnds ==
  [id \in PatternIds |-> [t \in Texts |-> [i \in 1..Len(t) |-> MatchEndAt(id, t, i)]]]
WordStarts == [t \in Texts |-> [i \in 1..Len(t) |-> StartOf(t, i)]]

\* RegExp.prototype.test with the g flag: the search starts at lastIndex and
\* finds the leftmost match from there; on a match lastIndex becomes the end
\* of the match, otherwise (also when lastIndex is past the end) 0.  The
\* value is the new lastIndex, which is > 0 exactly when test returns true.
RegExpTest(id, lastIdx, t) ==
  LET is == {i \in 1..Len(t) : WordStarts[t][i] >= lastIdx /\ MatchEnds[id][t][i] > 0}
  IN IF is = {} THEN 0
     ELSE MatchEnds[id][t][CHOOSE i \in is : \A j \in is : i <= j]

\* A for-of loop over one tier: test the patterns in order and stop at the
\* first that matches.
RECURSIVE TierLoop(_, _, _, _)
TierLoop(li, ids, k, t) ==
  IF k > Len(ids) THEN [li |-> li, hit |-> FALSE]
  ELSE LET n == RegExpTest(ids[k], li[ids[k]], t)
       IN IF n > 0 THEN [li |-> [li EXCEPT ![ids[k]] = n], hit |-> TRUE]
          ELSE TierLoop([li EXCEPT ![ids[k]] = 0], ids, k + 1, t)

\* Whether a fresh pattern of the tier matches t somewhere.
TierMatches(ids, t) ==
  \E k \in 1..Len(ids) : \E i \in 1..Len(t) : MatchEnds[ids[k]][t][i] > 0

\* ModerationService.moderateMessage without its queue write: the verdict
\* and the lastIndex of every pattern after the call.
Classify(li, t) ==
  LET e == TierLoop(li, escalationPatterns, 1, t)
      b == TierLoop(e.li, bannedPatterns, 1, t)
      s == TierLoop(b.li, suspiciousPatterns, 1, t)
  IN IF e.hit THEN
       [li |-> e.li, action |-> "escalate", severity |-> "critical",
        reason |-> "Content matches critical violation pattern",
        flagReason |-> "escalation_pattern"]
     ELSE IF b.hit THEN
       [li |-> b.li, action |-> "block", severity |-> "high",
        reason |-> "Content matches banned pattern",
        flagReason |-> "banned_pattern"]
     ELSE IF s.hit THEN
       [li |-> s.li, action |-> "review", severity |-> "medium",
        reason |-> "Content matches suspicious pattern",
        flagReason |-> "suspicious_pattern"]
     ELSE
       [li |-> s.li, action |-> "allow", severity |-> "low",
        reason |-> "", flagReason |-> ""]

\* ModerationService.checkStopWords on the trimmed, lower-cased text: the
\* text is the word, or holds " word ", or starts with "word ", or ends
\* with " word".
stopWords == {"stop", "unsubscribe", "no", "quit", "end", "block"}

checkStopWords(t) ==
  \E word \in stopWords :
    \/ Len(t) = 1 /\ toLowerCase(t[1]) = word
    \/ \E i \in 2..(Len(t) - 1) : toLowerCase(t[i]) = word
    \/ Len(t) >= 2 /\ toLowerCase(t[1]) = word
    \/ Len(t) >= 2 /\ toLowerCase(t[Len(t)]) = word

\* The same method on a text given character by character.  A string is a
\* sequence of one-character strings.
Spell(w) ==
  CASE w = "stop" -> <<"s", "t", "o", "p">>
    [] w = "unsubscribe" -> <<"u", "n", "s", "u", "b", "s", "c", "r", "i", "b", "e">>
    [] w = "no" -> <<"n", "o">>
    [] w = "quit" -> <<"q", "u", "i", "t">>
    [] w = "end" -> <<"e", "n", "d">>
    [] w = "block" -> <<"b", "l", "o", "c", "k">>
    [] w = "STOP" -> <<"S", "T", "O", "P">>
    [] w = "hey" -> <<"h", "e", "y">>
    [] w = "kill" -> <<"k", "i", "l", "l">>
    [] w = "hotel" -> <<"h", "o", "t", "e", "l">>
    [] w = "baby" -> <<"b", "a", "b", "y">>
    [] w = "send" -> <<"s", "e", "n", "d">>
    [] w = "pics" -> <<"p", "i", "c", "s">>
    [] OTHER -> <<"?">>

\* The words of a text joined by one space.
RECURSIVE Join(_)
Join(t) ==
  IF t = <<>> THEN <<>>
  ELSE IF Len(t) = 1 THEN Spell(t[1])
  ELSE Spell(t[1]) \o <<" ">> \o Join(Tail(t))

\* String.prototype.toLowerCase, trim, includes, startsWith and endsWith.
LowerChar(c) ==
  CASE c = "N" -> "n"
    [] c = "O" -> "o"
    [] c = "S" -> "s"
    [] c = "T" -> "t"
    [] c = "P" -> "p"
    [] OTHER -> c
toLowerCaseString(str) == [i \in DOMAIN str |-> LowerChar(str[i])]
trim(str) ==
  LET ink == {i \in DOMAIN str : str[i] # " "}
  IN IF ink = {} THEN <<>>
     ELSE SubSeq(str, CHOOSE i \in ink : \A j \in ink : i <= j,
                      CHOOSE i \in ink : \A j \in ink : j <= i)
includes(str, sub) ==
  \E i \in 1..(Len(str) - Len(sub) + 1) : SubSeq(str, i, i + Len(sub) - 1) = sub
startsWith(str, sub) ==
  Len(sub) <= Len(str) /\ SubSeq(str, 1, Len(sub)) = sub
endsWith(str, sub) ==
  Len(sub) <= Len(str) /\ SubSeq(str, Len(str) - Len(sub) + 1, Len(str)) = sub

\* The check that takes every occurrence of a stop word, also inside a
\* longer token.
checkStopWordsString_Substring(content) ==
  LET normalizedContent == trim(toLowerCaseString(content))
  IN \E word \in stopWords : includes(normalizedContent, Spell(word))

checkStopWordsString(content) ==
  LET normalizedContent == trim(toLowerCaseString(content))
  IN \E word \in stopWords :
       \/ normalizedContent = Spell(word)
       \/ includes(normalizedContent, <<" ">> \o Spell(word) \o <<" ">>)
       \/ startsWith(normalizedContent, Spell(word) \o <<" ">>)
       \/ endsWith(normalizedContent, <<" ">> \o Spell(word))

\* ------------------------------------------------------------------- state

\* Fan and persona ids a request may name: one row of each table exists.
KnownFans == {"f1"}
FanIds == {"f1", "fx"}
KnownPersonas == {"p1"}
PersonaIds == {"p1", "px"}
\* The (fanId, personaId) pairs of the requests.
RequestPairs == {<<"f1", "p1">>, <<"fx", "p1">>, <<"f1", "px">>}

Null == "null"

VARIABLES
  lastIndex,        \* lastIndex of each RegExp of the shared moderationService
  fans,             \* fans table: id -> row
  conversations,    \* conversations table, in insertion order; the id is the index
  messages,         \* messages table, in insertion order
  moderationQueue,  \* moderation_queue table, in insertion order
  auditLogs,        \* audit_logs table, in insertion order
  pc,               \* where each request-handling task stands in POST /api/ai/reply
  req,              \* the parsed body of each task's request
  loc,              \* the handler's locals: moderationResult, conversation, aiResponse
  res,              \* the response each task has sent
  did,              \* what each task has done so far in its turn
  calls,            \* API calls accepted so far
  out               \* the last answers of the consent and compliance endpoints

vars == <<lastIndex, fans, conversations, messages, moderationQueue, auditLogs,
          pc, req, loc, res, did, calls, out>>

\* fans.consent_status when the column is NULL.
NoConsent == [present |-> FALSE, ageAffirmed |-> FALSE, romanticContent |-> FALSE]

NoRequest == [fanId |-> Null, personaId |-> Null, message |-> <<>>]
NoLocals ==
  [moderationResult |-> [action |-> Null, severity |-> Null, reason |-> Null],
   conversation |-> 0,
   aiMessage |-> 0,
   completion |-> Null,
   aiResponse |-> [message |-> Null, toolCalls |-> <<>>]]
NoResponse ==
  [status |-> 0, message |-> Null, action |-> Null, reason |-> Null, messageId |-> 0]
Nothing ==
  [queue |-> 0, audit |-> 0, fan |-> 0, conversation |-> 0, message |-> 0,
   llm |-> 0, gate |-> 0, fault |-> 0]
\* No answer yet from POST /api/consent/affirm and GET /api/analytics/safety,
\* and none from the stop-word check called on its own.
NoAnswers ==
  [consent |-> [fanId |-> Null, affirmations |-> {}, consentStatus |-> NoConsent],
   safety |-> [status |-> 0, complianceScore |-> 0, pendingReviews |-> 0,
               totalModerated |-> 0, readFailed |-> FALSE],
   stop |-> [content |-> <<>>, asked |-> FALSE, isStop |-> FALSE],
   report |-> [asked |-> FALSE, readFailed |-> FALSE, creatorId |-> Null,
               startDate |-> 0, endDate |-> 0,
               totalInteractions |-> 0, moderatedMessages |-> 0,
               blockedMessages |-> 0, escalations |-> 0,
               complianceScore |-> 0, keyEvents |-> <<>>]]

\* The fan row of f1 as created by POST /api/fans, whose body may carry a
\* consent record: none yet, or both flags affirmed; one boundary tag.
FullConsent == [present |-> TRUE, ageAffirmed |-> TRUE, romanticContent |-> TRUE]

Init ==
  /\ lastIndex = [id \in PatternIds |-> 0]
  /\ \E c \in {NoConsent, FullConsent} :
       fans = [f \in KnownFans |->
               [consentStatus |-> c,
                boundaries |-> <<"no_politics">>,
                preferences |-> [opted_out |-> FALSE],
                spendTier |-> "free"]]
  /\ conversations = <<>>
  /\ messages = <<>>
  /\ moderationQueue = <<>>
  /\ auditLogs = <<>>
  /\ pc = [k \in Tasks |-> "idle"]
  /\ req = [k \in Tasks |-> NoRequest]
  /\ loc = [k \in Tasks |-> NoLocals]
  /\ res = [k \in Tasks |-> NoResponse]
  /\ did = [k \in Tasks |-> Nothing]
  /\ calls = [submit |-> 0, affirm |-> 0, resolve |-> 0]
  /\ out = NoAnswers

\* ----------------------------------------------------------------- storage

\* An update that writes the whole row: every column the caller leaves out
\* goes back to its default.
updateFan_Replace(tbl, id, updates) ==
  IF id \in DOMAIN tbl
  THEN [tbl EXCEPT ![id] =
          [fld \in DOMAIN tbl[id] |->
             IF fld \in DOMAIN updates THEN updates[fld]
             ELSE [consentStatus |-> [present |-> FALSE, ageAffirmed |-> FALSE,
                                      romanticContent |-> FALSE],
                   boundaries |-> <<>>,
                   preferences |-> [opted_out |-> FALSE],
                   spendTier |-> "free"][fld]]]
  ELSE tbl

\* DatabaseStorage.updateFan: UPDATE ... SET updates WHERE id; no row of an
\* unknown id is touched and nothing is thrown.
updateFan(tbl, id, updates) ==
  IF id \in DOMAIN tbl
  THEN [tbl EXCEPT ![id] =
          [fld \in DOMAIN tbl[id] |->
             IF fld \in DOMAIN updates THEN updates[fld] ELSE tbl[id][fld]]]
  ELSE tbl

\* DatabaseStorage.createModerationQueue.
createModerationQueue(tbl, item) ==
  Append(tbl, [content |-> item.content, flagReason |-> item.flagReason,
               severity |-> item.severity, status |-> item.status,
               reviewedBy |-> Null, reviewedAt |-> 0])

\* An insert that overwrites the newest row instead of adding one.
createAuditLog_Overwrite(tbl, log) ==
  IF tbl = <<>> THEN <<log>> ELSE [tbl EXCEPT ![Len(tbl)] = log]

\* DatabaseStorage.createAuditLog.
createAuditLog(tbl, log) == Append(tbl, log)

\* ModerationService.logToModerationQueue: the insert succeeds (ok) or
\* throws; the catch logs the error and returns, so nothing is thrown on.
logToModerationQueue(tbl, content, flagReason, severity, ok) ==
  [tbl |-> IF ok
           THEN createModerationQueue(tbl, [content |-> content, flagReason |-> flagReason,
                                            severity |-> severity, status |-> "pending"])
           ELSE tbl,
   threw |-> FALSE]

\* AuditService.logAction through its callers: the row that is appended.
\* None of the callers modelled passes a userId, so the column is NULL.
AuditEntry(action, entityType, entityId, details) ==
  [action |-> action, entityType |-> entityType, entityId |-> entityId,
   userId |-> Null, details |-> details]

\* logAction without its try/catch: a failed insert is thrown to the caller.
logAction_NoCatch(tbl, entry, ok) ==
  [tbl |-> IF ok THEN createAuditLog(tbl, entry) ELSE tbl, threw |-> ~ok]

\* AuditService.logAction: the insert succeeds (ok) or throws; the catch
\* logs the error and does not rethrow.
logAction(tbl, entry, ok) ==
  [tbl |-> IF ok THEN createAuditLog(tbl, entry) ELSE tbl, threw |-> FALSE]

\* The gate with || written for &&: one affirmed flag would open it.
checkConsentGate_EitherFlag(tbl, fanId) ==
  /\ fanId \in DOMAIN tbl
  /\ tbl[fanId].consentStatus.present
  /\ tbl[fanId].consentStatus.ageAffirmed \/ tbl[fanId].consentStatus.romanticContent

\* ModerationService.checkConsentGate: consent?.ageAffirmed && consent?.romanticContent.
checkConsentGate(tbl, fanId) ==
  /\ fanId \in DOMAIN tbl
  /\ tbl[fanId].consentStatus.present
  /\ tbl[fanId].consentStatus.ageAffirmed
  /\ tbl[fanId].consentStatus.romanticContent

\* The gate failing open: its catch returns true.
readConsentGate_FailOpen(tbl, fanId, ok) ==
  IF ok THEN checkConsentGate(tbl, fanId) ELSE TRUE

\* checkConsentGate with its storage.getFan succeeding (ok) or throwing:
\* the catch returns false.
readConsentGate(tbl, fanId, ok) == IF ok THEN checkConsentGate(tbl, fanId) ELSE FALSE

\* DatabaseStorage.getConversationByFanAndPersona: the ids of the rows the
\* query selects; the caller takes the first row the database returns.
getConversationByFanAndPersona(tbl, fanId, personaId) ==
  {c \in DOMAIN tbl : /\ tbl[c].fanId = fanId
                      /\ tbl[c].personaId = personaId
                      /\ tbl[c].isActive}

\* DatabaseStorage.createConversation (is_active defaults to true, sentiment
\* is NULL).
createConversation(tbl, fanId, personaId) ==
  Append(tbl, [fanId |-> fanId, personaId |-> personaId, isActive |-> TRUE,
               sentiment |-> Null])

\* DatabaseStorage.updateConversation: UPDATE ... SET updates WHERE id.
updateConversation(tbl, id, updates) ==
  [tbl EXCEPT ![id] =
     [fld \in DOMAIN tbl[id] |->
        IF fld \in DOMAIN updates THEN updates[fld] ELSE tbl[id][fld]]]

\* An insert that keeps one row per conversation and sender: a later message
\* takes the place of the earlier one.
createMessage_Upsert(tbl, conversationId, sender, content) ==
  LET same == {i \in DOMAIN tbl : /\ tbl[i].conversationId = conversationId
                                  /\ tbl[i].sender = sender}
      row == [conversationId |-> conversationId, sender |-> sender, content |-> content]
  IN IF same = {} THEN Append(tbl, row)
     ELSE [tbl EXCEPT ![CHOOSE i \in same : TRUE] = row]

\* DatabaseStorage.createMessage.
createMessage(tbl, conversationId, sender, content) ==
  Append(tbl, [conversationId |-> conversationId, sender |-> sender,
               content |-> content])

\* ------------------------------------------------------- POST /api/ai/reply

\* The JSON bodies the handler sends (the texts without their emoji).
BlockedResponse(reason) ==
  [status |-> 400, message |-> "Message blocked by moderation system",
   action |-> Null, reason |-> reason, messageId |-> 0]
EscalatedResponse ==
  [status |-> 400, message |-> "Message flagged for review",
   action |-> Null, reason |-> "Content requires human review", messageId |-> 0]
StopResponse ==
  [status |-> 200, message |-> "I understand you'd like to stop our conversations. You've been unsubscribed. Take care!",
   action |-> "stop_processed", reason |-> Null, messageId |-> 0]
NotFoundResponse ==
  [status |-> 404, message |-> "Persona or fan not found",
   action |-> Null, reason |-> Null, messageId |-> 0]
ConsentResponse ==
  [status |-> 200, message |-> "Before we chat, I need to confirm you're 18+ and okay with receiving romantic messages. Are you over 18 and interested in flirty conversation?",
   action |-> "consent_required", reason |-> Null, messageId |-> 0]
ErrorResponse ==
  [status |-> 500, message |-> "Internal server error",
   action |-> Null, reason |-> Null, messageId |-> 0]
RepliedResponse(message, messageId) ==
  [status |-> 200, message |-> message, action |-> Null, reason |-> Null,
   messageId |-> messageId]

\* The terminal state a response stands for.
TerminalState(r) ==
  CASE r.status = 0 -> "none"
    [] r.status = 404 -> "not_found"
    [] r.status = 500 -> "error"
    [] r.status = 400 /\ r.message = "Message blocked by moderation system" -> "blocked"
    [] r.status = 400 -> "escalated"
    [] r.status = 200 /\ r.action = "stop_processed" -> "stopped"
    [] r.status = 200 /\ r.action = "consent_required" -> "consent_required"
    [] OTHER -> "responded"

\* LLMService.generateResponse: what the model answers (parseAIResponse
\* turns a non-empty action into one tool call), or the catch branch.
FallbackMessage == "Sorry, I'm having trouble responding right now. Let me try again in a moment!"
\* What the chat-completion call does: a JSON answer without an action, a
\* JSON answer with the action offer_menu, or an API or JSON.parse error.
Completions == {"answer", "answer_with_action", "error"}

\* generateResponse without its try/catch: the error is thrown to the caller.
generateResponse_NoCatch(completion) ==
  CASE completion = "answer" ->
         [message |-> "Hey there!", toolCalls |-> <<>>, threw |-> FALSE]
    [] completion = "answer_with_action" ->
         [message |-> "Hey there!", toolCalls |-> <<"offer_menu">>, threw |-> FALSE]
    [] OTHER -> [message |-> Null, toolCalls |-> <<>>, threw |-> TRUE]

\* LLMService.generateResponse: parseAIResponse of the answer, or the fixed
\* apology with no tool calls from the catch.
generateResponse(completion) ==
  CASE completion = "answer" ->
         [message |-> "Hey there!", toolCalls |-> <<>>, threw |-> FALSE]
    [] completion = "answer_with_action" ->
         [message |-> "Hey there!", toolCalls |-> <<"offer_menu">>, threw |-> FALSE]
    [] OTHER -> [message |-> FallbackMessage, toolCalls |-> <<>>, threw |-> FALSE]

AIResponses ==
  { [message |-> generateResponse(c).message, toolCalls |-> generateResponse(c).toolCalls] :
      c \in Completions }

\* The tool-call types whose case reads this.processOfferMenu,
\* this.createPaymentLink or this.sendMediaContent; this is undefined in
\* the route handler, so the read throws a TypeError.
HelperToolCalls == {"offer_menu", "create_payment_link", "send_media"}

\* What LLMService.analyzeSentiment answers for the fan's message ('neutral'
\* also from its catch).
Sentiments == {"neutral", "positive"}

Bump(k, fld) == [did EXCEPT ![k][fld] = @ + 1]
\* A storage call of task k that succeeded (ok) or failed.
BumpIf(k, fld, ok) ==
  [did EXCEPT ![k][fld] = @ + (IF ok THEN 1 ELSE 0),
              ![k].fault = @ + (IF ok THEN 0 ELSE 1)]
Finish(k, response) ==
  /\ res' = [res EXCEPT ![k] = response]
  /\ pc' = [pc EXCEPT ![k] = "done"]

\* The lowest task that handles no request.
FreeTask == CHOOSE k \in Tasks : pc[k] \in {"idle", "done"} /\ \A j \in 1..(k - 1) : pc[j] \notin {"idle", "done"}

\* The request arrives, its body parses and the handler calls
\* moderationService.moderateMessage(message, fanId): the pattern tests run
\* in the same turn of the event loop, then, on a verdict other than allow,
\* the queue write.
moderateMessage(k, fanId, personaId, message, ok) ==
  /\ \E j \in Tasks : pc[j] \in {"idle", "done"}
  /\ k = FreeTask
  /\ calls.submit < MaxSubmits
  /\ calls' = [calls EXCEPT !.submit = @ + 1]
  /\ req' = [req EXCEPT ![k] = [fanId |-> fanId, personaId |-> personaId, message |-> message]]
  /\ \E r \in {Classify(lastIndex, message)} :
        /\ lastIndex' = r.li
        /\ loc' = [loc EXCEPT ![k] = [NoLocals EXCEPT !.moderationResult =
                     [action |-> r.action, severity |-> r.severity, reason |-> r.reason]]]
        /\ IF r.action = "allow"
           THEN /\ ok
                /\ UNCHANGED moderationQueue
                /\ did' = [did EXCEPT ![k] = Nothing]
                /\ res' = [res EXCEPT ![k] = NoResponse]
                /\ pc' = [pc EXCEPT ![k] = "verdict"]
           ELSE \E q \in {logToModerationQueue(moderationQueue, message,
                                                r.flagReason, r.severity, ok)} :
                  /\ moderationQueue' = q.tbl
                  /\ did' = [did EXCEPT ![k] =
                              [Nothing EXCEPT !.queue = IF ok THEN 1 ELSE 0,
                                              !.fault = IF ok THEN 0 ELSE 1]]
                  /\ res' = [res EXCEPT ![k] = IF q.threw THEN ErrorResponse ELSE NoResponse]
                  /\ pc' = [pc EXCEPT ![k] = IF q.threw THEN "done" ELSE "verdict"]
  /\ UNCHANGED <<fans, conversations, messages, auditLogs, out>>

\* The block branch without its return: the audit entry is written and the
\* handler goes on to the conversation lookup.
BlockBranch_NoReturn(k, ok) ==
  /\ pc[k] = "verdict"
  /\ loc[k].moderationResult.action = "block"
  /\ \E a \in {logAction(auditLogs,
                AuditEntry("moderation_action", "message", "",
                           [action |-> "block", reason |-> loc[k].moderationResult.reason,
                            severity |-> loc[k].moderationResult.severity]), ok)} :
       /\ auditLogs' = a.tbl
       /\ IF a.threw
          THEN Finish(k, ErrorResponse)
          ELSE /\ pc' = [pc EXCEPT ![k] = "conversation"]
               /\ UNCHANGED res
  /\ did' = BumpIf(k, "audit", ok)
  /\ UNCHANGED <<lastIndex, fans, conversations, messages, moderationQueue, req, loc, calls, out>>

\* if (moderationResult.action === 'block'): audit and answer 400.
BlockBranch(k, ok) ==
  /\ pc[k] = "verdict"
  /\ loc[k].moderationResult.action = "block"
  /\ \E a \in {logAction(auditLogs,
                AuditEntry("moderation_action", "message", "",
                           [action |-> "block", reason |-> loc[k].moderationResult.reason,
                            severity |-> loc[k].moderationResult.severity]), ok)} :
       /\ auditLogs' = a.tbl
       /\ IF a.threw
          THEN Finish(k, ErrorResponse)
          ELSE Finish(k, BlockedResponse(loc[k].moderationResult.reason))
  /\ did' = BumpIf(k, "audit", ok)
  /\ UNCHANGED <<lastIndex, fans, conversations, messages, moderationQueue, req, loc, calls, out>>

\* if (moderationResult.action === 'escalate'): escalateMessage queues the
\* text once more and the handler answers 400.
EscalateBranch(k, ok) ==
  /\ pc[k] = "verdict"
  /\ loc[k].moderationResult.action = "escalate"
  /\ \E q \in {logToModerationQueue(moderationQueue, req[k].message,
                  "ESCALATED: Content matches critical violation pattern", "critical", ok)} :
       /\ moderationQueue' = q.tbl
       /\ IF q.threw THEN Finish(k, ErrorResponse) ELSE Finish(k, EscalatedResponse)
  /\ did' = BumpIf(k, "queue", ok)
  /\ UNCHANGED <<lastIndex, fans, conversations, messages, auditLogs, req, loc, calls, out>>

\* ModerationService.processStopRequest: the fan update and the audit
\* entry, whose insert succeeds (ok) or throws into the method's own catch.
processStopRequest(k, ok) ==
  /\ fans' = updateFan(fans, req[k].fanId,
                       [boundaries |-> <<"stop_all_messages">>,
                        preferences |-> [opted_out |-> TRUE]])
  /\ auditLogs' =
       IF ok
       THEN createAuditLog(auditLogs,
              AuditEntry("stop_request", "fan", req[k].fanId,
                         [reason |-> "user_requested_stop"]))
       ELSE auditLogs
  /\ did' = [did EXCEPT ![k].audit = @ + (IF ok THEN 1 ELSE 0),
                        ![k].fault = @ + (IF ok THEN 0 ELSE 1),
                        ![k].fan = @ + (IF req[k].fanId \in DOMAIN fans THEN 1 ELSE 0)]

\* if (await moderationService.checkStopWords(message)), reached on the
\* verdicts allow and review.
StopBranch(k, ok) ==
  /\ pc[k] = "verdict"
  /\ loc[k].moderationResult.action \notin {"block", "escalate"}
  /\ checkStopWords(req[k].message)
  /\ processStopRequest(k, ok)
  /\ Finish(k, StopResponse)
  /\ UNCHANGED <<lastIndex, conversations, messages, moderationQueue, req, loc, calls, out>>

\* storage.getPersona and storage.getFan, 404 when either is missing; then
\* if (!await moderationService.checkConsentGate(fanId)).
ConsentGate(k, ok) ==
  /\ pc[k] = "verdict"
  /\ loc[k].moderationResult.action \notin {"block", "escalate"}
  /\ ~checkStopWords(req[k].message)
  /\ IF req[k].personaId \notin KnownPersonas \/ req[k].fanId \notin DOMAIN fans
     THEN /\ ok
          /\ Finish(k, NotFoundResponse)
          /\ UNCHANGED did
     ELSE /\ did' = [did EXCEPT ![k].gate = @ + 1,
                                ![k].fault = @ + (IF ok THEN 0 ELSE 1)]
          /\ IF readConsentGate(fans, req[k].fanId, ok)
             THEN /\ pc' = [pc EXCEPT ![k] = "conversation"]
                  /\ UNCHANGED res
             ELSE Finish(k, ConsentResponse)
  /\ UNCHANGED <<lastIndex, fans, conversations, messages, moderationQueue, auditLogs,
                 req, loc, calls, out>>

\* let conversation = await storage.getConversationByFanAndPersona(...).
GetConversation(k) ==
  /\ pc[k] = "conversation"
  /\ LET found == getConversationByFanAndPersona(conversations, req[k].fanId, req[k].personaId)
     IN IF found = {}
        THEN /\ pc' = [pc EXCEPT ![k] = "create"]
             /\ UNCHANGED loc
        ELSE /\ \E c \in found : loc' = [loc EXCEPT ![k].conversation = c]
             /\ pc' = [pc EXCEPT ![k] = "generate"]
  /\ UNCHANGED <<lastIndex, fans, conversations, messages, moderationQueue, auditLogs,
                 req, res, did, calls, out>>

\* if (!conversation) conversation = await storage.createConversation(...).
CreateConversation(k) ==
  /\ pc[k] = "create"
  /\ conversations' = createConversation(conversations, req[k].fanId, req[k].personaId)
  /\ loc' = [loc EXCEPT ![k].conversation = Len(conversations) + 1]
  /\ did' = Bump(k, "conversation")
  /\ pc' = [pc EXCEPT ![k] = "generate"]
  /\ UNCHANGED <<lastIndex, fans, messages, moderationQueue, auditLogs, req, res, calls, out>>

\* storage.getConversationMessages and llmService.generateResponse.
GenerateResponse(k) ==
  /\ pc[k] = "generate"
  /\ \E c \in Completions : \E r \in {generateResponse(c)} :
       /\ loc' = [loc EXCEPT ![k].completion = c,
                             ![k].aiResponse = [message |-> r.message, toolCalls |-> r.toolCalls]]
       /\ IF r.threw
          THEN Finish(k, ErrorResponse)
          ELSE /\ pc' = [pc EXCEPT ![k] = "store"]
               /\ UNCHANGED res
  /\ did' = Bump(k, "llm")
  /\ UNCHANGED <<lastIndex, fans, conversations, messages, moderationQueue, auditLogs,
                 req, calls, out>>

\* The store step with the insert of the AI's response left out: the reply
\* would go out with the id of the fan's message.
StoreMessages_FanOnly(k) ==
  /\ pc[k] = "store"
  /\ messages' = createMessage(messages, loc[k].conversation, "fan", req[k].message)
  /\ loc' = [loc EXCEPT ![k].aiMessage = Len(messages) + 1]
  /\ did' = [did EXCEPT ![k].message = @ + 1]
  /\ pc' = [pc EXCEPT ![k] = "respond"]
  /\ UNCHANGED <<lastIndex, fans, conversations, moderationQueue, auditLogs, req, res, calls, out>>

\* Store the fan's message: await storage.createMessage({... sender: 'fan'}).
StoreFanMessage(k) ==
  /\ pc[k] = "store"
  /\ messages' = createMessage(messages, loc[k].conversation, "fan", req[k].message)
  /\ did' = Bump(k, "message")
  /\ pc' = [pc EXCEPT ![k] = "store_ai"]
  /\ UNCHANGED <<lastIndex, fans, conversations, moderationQueue, auditLogs, req, loc, res,
                 calls, out>>

\* Store the AI's response: aiMessage = await storage.createMessage({...
\* sender: 'ai'}).  A stored text is a sequence of words; the AI's text is
\* kept as one word.
StoreAIMessage(k) ==
  /\ pc[k] = "store_ai"
  /\ messages' = createMessage(messages, loc[k].conversation, "ai",
                               <<loc[k].aiResponse.message>>)
  /\ loc' = [loc EXCEPT ![k].aiMessage = Len(messages) + 1]
  /\ did' = Bump(k, "message")
  /\ pc' = [pc EXCEPT ![k] = "respond"]
  /\ UNCHANGED <<lastIndex, fans, conversations, moderationQueue, auditLogs, req, res, calls, out>>

\* Store the fan's message, then the AI's response: two inserts, each
\* awaited.
StoreMessages(k) == StoreFanMessage(k) \/ StoreAIMessage(k)

\* analyzeSentiment, updateConversation, auditService.logConversation, the
\* tool-call dispatch and res.json; a TypeError in the dispatch lands in the
\* handler's catch, which answers 500.
Respond(k, ok) ==
  /\ pc[k] = "respond"
  /\ \E sentiment \in Sentiments :
       conversations' = updateConversation(conversations, loc[k].conversation,
                                           [sentiment |-> sentiment])
  /\ \E a \in {logAction(auditLogs,
                AuditEntry("ai_conversation", "conversation", ToString(loc[k].conversation),
                           [action |-> loc[k].moderationResult.action,
                            reason |-> loc[k].moderationResult.reason,
                            severity |-> loc[k].moderationResult.severity]), ok)} :
       /\ auditLogs' = a.tbl
       /\ IF \/ a.threw
             \/ \E i \in DOMAIN loc[k].aiResponse.toolCalls :
                  loc[k].aiResponse.toolCalls[i] \in HelperToolCalls
          THEN Finish(k, ErrorResponse)
          ELSE Finish(k, RepliedResponse(loc[k].aiResponse.message, loc[k].aiMessage))
  /\ did' = BumpIf(k, "audit", ok)
  /\ UNCHANGED <<lastIndex, fans, messages, moderationQueue, req, loc, calls, out>>

\* ------------------------------------------------- POST /api/consent/affirm

Affirmations == {"I am 18+", "I consent to romantic messages"}

\* A consentStatus whose flags are both set by any affirmation at all.
ConsentStatusOf_AnyAffirmation(affirmations) ==
  [present |-> TRUE,
   ageAffirmed |-> affirmations # {},
   romanticContent |-> affirmations # {}]

\* The consentStatus object the handler builds from the affirmations.
ConsentStatusOf(affirmations) ==
  [present |-> TRUE,
   ageAffirmed |-> "I am 18+" \in affirmations,
   romanticContent |-> "I consent to romantic messages" \in affirmations]

\* storage.updateFan(fanId, { consentStatus }) and logFanInteraction; the
\* audit row carries fan_id, a foreign key, so for an unknown fan the insert
\* fails and logAction swallows the error.
AffirmConsent(fanId, affirmations) ==
  /\ calls.affirm < MaxAffirms
  /\ calls' = [calls EXCEPT !.affirm = @ + 1]
  /\ fans' = updateFan(fans, fanId, [consentStatus |-> ConsentStatusOf(affirmations)])
  /\ auditLogs' =
       IF fanId \in DOMAIN fans
       THEN createAuditLog(auditLogs,
              AuditEntry("fan_interaction", "fan", fanId,
                         [interactionType |-> "consent_affirmed",
                          affirmations |-> affirmations]))
       ELSE auditLogs
  /\ out' = [out EXCEPT !.consent =
                [fanId |-> fanId, affirmations |-> affirmations,
                 consentStatus |-> ConsentStatusOf(affirmations)]]
  /\ UNCHANGED <<lastIndex, conversations, messages, moderationQueue, pc, req, loc, res, did>>

\* ---------------------------------------------- PUT /api/moderation/queue/:id

\* The status values a request body may carry.
RequestedStatuses == {"approved", "blocked", "spam"}
Reviewers == {"u1"}

\* DatabaseStorage.updateModerationQueue: UPDATE ... SET updates WHERE id.
updateModerationQueue(tbl, id, updates) ==
  [i \in DOMAIN tbl |->
     IF i = id
     THEN [fld \in DOMAIN tbl[i] |->
             IF fld \in DOMAIN updates THEN updates[fld] ELSE tbl[i][fld]]
     ELSE tbl[i]]

\* The handler: whatever status the body names is written.
ResolveItem(id, status, reviewedBy) ==
  /\ calls.resolve < MaxResolves
  /\ calls' = [calls EXCEPT !.resolve = @ + 1]
  /\ moderationQueue' =
       updateModerationQueue(moderationQueue, id,
         [status |-> status, reviewedBy |-> reviewedBy, reviewedAt |-> calls.resolve + 1])
  /\ UNCHANGED <<lastIndex, fans, conversations, messages, auditLogs, pc, req, loc, res, did, out>>

\* ------------------------------------------------ GET /api/analytics/safety

\* queue.filter(item => item.status === status).length and
\* queue.filter(item => item.severity === severity).length.
CountStatus(queue, status) == Cardinality({i \in DOMAIN queue : queue[i].status = status})
CountSeverity(queue, severity) ==
  Cardinality({i \in DOMAIN queue : queue[i].severity = severity})

\* The score with the critical items counted once instead of twice.
getComplianceScore_CriticalOnce(queue, ok) ==
  IF ~ok THEN 980
  ELSE IF Len(queue) = 0 THEN 1000
  ELSE LET total == Len(queue)
           blocked == CountStatus(queue, "blocked")
           escalated == CountSeverity(queue, "critical")
           num == IF 1000 * total - 1000 * (blocked + escalated) > 0
                  THEN 1000 * total - 1000 * (blocked + escalated) ELSE 0
       IN (2 * num + total) \div (2 * total)

\* The score with the blocked items subtracted instead of added.
getComplianceScore_BlockedSubtracted(queue, ok) ==
  IF ~ok THEN 980
  ELSE IF Len(queue) = 0 THEN 1000
  ELSE LET total == Len(queue)
           blocked == CountStatus(queue, "blocked")
           escalated == CountSeverity(queue, "critical")
           num == IF 1000 * total - 1000 * (escalated * 2 - blocked) > 0
                  THEN 1000 * total - 1000 * (escalated * 2 - blocked) ELSE 0
       IN (2 * num + total) \div (2 * total)

\* ModerationService.getComplianceScore, in tenths of a point (the value
\* returned times 10): Math.max(0, 100 - violationRate * 100), then
\* Math.round(score * 10) / 10, which rounds the tenths half up; 98.0 from
\* the catch when the queue read throws (ok false).  num / total is
\* score * 10 before the rounding.
getComplianceScore(queue, ok) ==
  IF ~ok THEN 980
  ELSE IF Len(queue) = 0 THEN 1000
  ELSE LET total == Len(queue)
           blocked == CountStatus(queue, "blocked")
           escalated == CountSeverity(queue, "critical")
           num == IF 1000 * total - 1000 * (blocked + escalated * 2) > 0
                  THEN 1000 * total - 1000 * (blocked + escalated * 2) ELSE 0
       IN (2 * num + total) \div (2 * total)

\* The handler: the score, then the pending items and all items are read;
\* a failure of the handler's own reads (okRest false) answers 500.
GetSafetyAnalytics(ok, okRest) ==
  /\ out' = [out EXCEPT !.safety =
              IF okRest
              THEN [status |-> 200,
                    complianceScore |-> getComplianceScore(moderationQueue, ok),
                    pendingReviews |->
                      CountStatus(moderationQueue, "pending"),
                    totalModerated |-> Len(moderationQueue),
                    readFailed |-> ~ok]
              ELSE [status |-> 500, complianceScore |-> 0, pendingReviews |-> 0,
                    totalModerated |-> 0, readFailed |-> ~ok]]
  /\ UNCHANGED <<lastIndex, fans, conversations, messages, moderationQueue, auditLogs,
                 pc, req, loc, res, did, calls>>

\* Queue contents the score is read on: up to MaxQueue items, each with one
\* of the statuses a resolution writes and a severity the classifier gives.
QueueItem(status, severity) ==
  [content |-> <<"kill">>, flagReason |-> "banned_pattern", severity |-> severity,
   status |-> status, reviewedBy |-> Null, reviewedAt |-> 0]
QueueItems ==
  {QueueItem(st, sv) : st \in {"pending", "approved", "blocked"}, sv \in {"high", "critical"}}
QueueContents == UNION {[1..n -> QueueItems] : n \in 0..MaxQueue}

\* -------------------------------------- AuditService.generateComplianceReport

\* users.id of the creator who owns persona p1, and of another creator.
Creators == {"c1", "cx"}
PersonaCreator == [p \in KnownPersonas |-> "c1"]

\* The entries of the audit log, newest first as getAuditLogs orders them,
\* that fall into the window and belong to the creator.  createdAt of an
\* entry is its position in the table.
RECURSIVE relevantLogs(_, _, _, _, _)
relevantLogs(logs, i, creatorId, startDate, endDate) ==
  IF i = 0 THEN <<>>
  ELSE (IF /\ i >= startDate
           /\ i <= endDate
           /\ \/ logs[i].userId = creatorId
              \/ /\ "creatorId" \in DOMAIN logs[i].details
                 /\ logs[i].details.creatorId = creatorId
        THEN <<logs[i]>> ELSE <<>>)
       \o relevantLogs(logs, i - 1, creatorId, startDate, endDate)

IsModeration(log, action) ==
  /\ log.action = "moderation_action"
  /\ "action" \in DOMAIN log.details
  /\ log.details.action = action
IsInteraction(log) == log.action = "ai_conversation"
IsModerated(log) == log.action = "moderation_action"
IsKeyEvent(log) == log.action \in {"moderation_action", "payment_event", "stop_request"}

\* The report, with the score in tenths; all zero from the catch when the
\* read of the audit log fails.
generateComplianceReport(logs, creatorId, startDate, endDate, ok) ==
  IF ~ok
  THEN [readFailed |-> TRUE, totalInteractions |-> 0, moderatedMessages |-> 0,
        blockedMessages |-> 0, escalations |-> 0, complianceScore |-> 0,
        keyEvents |-> <<>>]
  ELSE LET relevant == relevantLogs(logs, Len(logs), creatorId, startDate, endDate)
           totalInteractions == Len(SelectSeq(relevant, IsInteraction))
           blockedMessages ==
             Cardinality({i \in DOMAIN relevant : IsModeration(relevant[i], "block")})
           escalations ==
             Cardinality({i \in DOMAIN relevant : IsModeration(relevant[i], "escalate")})
           violations == blockedMessages + 2 * escalations
           keyEvents == SelectSeq(relevant, IsKeyEvent)
       IN [readFailed |-> FALSE,
           totalInteractions |-> totalInteractions,
           moderatedMessages |-> Len(SelectSeq(relevant, IsModerated)),
           blockedMessages |-> blockedMessages,
           escalations |-> escalations,
           complianceScore |->
             IF totalInteractions = 0 THEN 1000
             ELSE IF violations >= totalInteractions THEN 0
             ELSE (2000 * (totalInteractions - violations) + totalInteractions)
                    \div (2 * totalInteractions),
           keyEvents |-> SubSeq(keyEvents, 1, IF Len(keyEvents) < 20 THEN Len(keyEvents) ELSE 20)]

\* A caller asks for the report of a creator over a window.
GenerateComplianceReport(creatorId, startDate, endDate, ok) ==
  /\ \E r \in {generateComplianceReport(auditLogs, creatorId, startDate, endDate, ok)} :
       out' = [out EXCEPT !.report =
                 [asked |-> TRUE, readFailed |-> r.readFailed, creatorId |-> creatorId,
                  startDate |-> startDate, endDate |-> endDate,
                  totalInteractions |-> r.totalInteractions,
                  moderatedMessages |-> r.moderatedMessages,
                  blockedMessages |-> r.blockedMessages,
                  escalations |-> r.escalations,
                  complianceScore |-> r.complianceScore,
                  keyEvents |-> r.keyEvents]]
  /\ UNCHANGED <<lastIndex, fans, conversations, messages, moderationQueue, auditLogs,
                 pc, req, loc, res, did, calls>>

\* ----------------------------------------------------------- specification

\* The steps of POST /api/ai/reply taken by the tasks ks.
\* oks holds the outcomes of the storage calls that may fail: TRUE alone
\* when storage never fails.
Turn(ks, oks) ==
  \/ \E k \in ks, fp \in RequestPairs, m \in Texts, ok \in oks :
       moderateMessage(k, fp[1], fp[2], m, ok)
  \/ \E k \in ks, ok \in oks : BlockBranch(k, ok)
  \/ \E k \in ks, ok \in oks : EscalateBranch(k, ok)
  \/ \E k \in ks, ok \in oks : StopBranch(k, ok)
  \/ \E k \in ks, ok \in oks : ConsentGate(k, ok)
  \/ \E k \in ks : GetConversation(k)
  \/ \E k \in ks : CreateConversation(k)
  \/ \E k \in ks : GenerateResponse(k)
  \/ \E k \in ks : StoreMessages(k)
  \/ \E k \in ks, ok \in oks : Respond(k, ok)

Reply(ks) == Turn(ks, {TRUE})

Affirm == \E f \in KnownFans, a \in SUBSET Affirmations : AffirmConsent(f, a)

Resolve ==
  \E id \in DOMAIN moderationQueue, s \in RequestedStatuses, u \in Reviewers :
    ResolveItem(id, s, u)

\* Fans' requests handled concurrently, and consent affirmations.
Next == Reply(Tasks) \/ Affirm

Spec == Init /\ [][Next]_vars

\* Fans' requests handled one at a time, consent affirmations, and a
\* reviewer resolving queue items.
NextReview == Reply({1}) \/ Affirm \/ Resolve

SpecReview == Init /\ [][NextReview]_vars

\* Requests handled one at a time while the queue writes, the audit writes
\* and the consent gate's read may fail, and consent affirmations.
NextFaults == Turn({1}, BOOLEAN) \/ Affirm

SpecFaults == Init /\ [][NextFaults]_vars

\* The safety analytics read on a queue of any content.
InitScore ==
  /\ lastIndex = [id \in PatternIds |-> 0]
  /\ fans = [f \in KnownFans |->
             [consentStatus |-> NoConsent,
              boundaries |-> <<"no_politics">>,
              preferences |-> [opted_out |-> FALSE],
              spendTier |-> "free"]]
  /\ conversations = <<>>
  /\ messages = <<>>
  /\ moderationQueue \in QueueContents
  /\ auditLogs = <<>>
  /\ pc = [k \in Tasks |-> "idle"]
  /\ req = [k \in Tasks |-> NoRequest]
  /\ loc = [k \in Tasks |-> NoLocals]
  /\ res = [k \in Tasks |-> NoResponse]
  /\ did = [k \in Tasks |-> Nothing]
  /\ calls = [submit |-> 0, affirm |-> 0, resolve |-> 0]
  /\ out = NoAnswers

Safety == \E ok \in BOOLEAN, okRest \in BOOLEAN : GetSafetyAnalytics(ok, okRest)

SpecScore == InitScore /\ [][Safety]_vars

\* The stop-word check called on its own with any text of up to MaxChars
\* characters over a small alphabet: letters of the stop word "no", an upper
\* case letter, the space and a punctuation mark.
StopChars == {"n", "o", "N", " ", "."}
StopInputs == UNION {[1..n -> StopChars] : n \in 0..MaxChars}

InitStop ==
  /\ lastIndex = [id \in PatternIds |-> 0]
  /\ fans = [f \in KnownFans |->
             [consentStatus |-> NoConsent,
              boundaries |-> <<"no_politics">>,
              preferences |-> [opted_out |-> FALSE],
              spendTier |-> "free"]]
  /\ conversations = <<>>
  /\ messages = <<>>
  /\ moderationQueue = <<>>
  /\ auditLogs = <<>>
  /\ pc = [k \in Tasks |-> "idle"]
  /\ req = [k \in Tasks |-> NoRequest]
  /\ loc = [k \in Tasks |-> NoLocals]
  /\ res = [k \in Tasks |-> NoResponse]
  /\ did = [k \in Tasks |-> Nothing]
  /\ calls = [submit |-> 0, affirm |-> 0, resolve |-> 0]
  /\ \E content \in StopInputs :
       out = [NoAnswers EXCEPT !.stop.content = content]

CheckStopWords ==
  /\ ~out.stop.asked
  /\ out' = [out EXCEPT !.stop.asked = TRUE,
                        !.stop.isStop = checkStopWordsString(out.stop.content)]
  /\ UNCHANGED <<lastIndex, fans, conversations, messages, moderationQueue, auditLogs,
                 pc, req, loc, res, did, calls>>

SpecStop == InitStop /\ [][CheckStopWords]_vars

\* ------------------------------------------------------------------ claims

\* The vocabulary of the claims, stated apart from the handler's own tests.
Ended(k) == pc[k] = "done"
Outcome(k) == TerminalState(res[k])
MatchesNoTier(t) ==
  /\ ~TierMatches(escalationPatterns, t)
  /\ ~TierMatches(bannedPatterns, t)
  /\ ~TierMatches(suspiciousPatterns, t)
HasStopWord(t) == \E i \in DOMAIN t : toLowerCase(t[i]) \in stopWords
HasFullConsent(f) ==
  /\ f \in DOMAIN fans
  /\ fans[f].consentStatus.present
  /\ fans[f].consentStatus.ageAffirmed
  /\ fans[f].consentStatus.romanticContent
\* Task k leaves the program point at in this step.
Leaves(k, at) == pc[k] = at /\ pc'[k] # at

\* C1: a turn whose text holds a stop word as a whole token ends in stopped,
\* also when the text matches a block-tier or escalation-tier pattern.
C1_StopPrecedence ==
  \A k \in Tasks :
    Ended(k) /\ HasStopWord(req[k].message) => Outcome(k) = "stopped"

\* C2: a turn whose text matches an escalation pattern and holds no stop
\* word ends in escalated with the fixed review notice, and a pending
\* critical queue item holds the text, whatever was processed before.
C2_EscalationAlways ==
  \A k \in Tasks :
    Ended(k) /\ TierMatches(escalationPatterns, req[k].message)
             /\ ~HasStopWord(req[k].message)
    => /\ Outcome(k) = "escalated"
       /\ res[k] = EscalatedResponse
       /\ \E i \in DOMAIN moderationQueue :
            /\ moderationQueue[i].content = req[k].message
            /\ moderationQueue[i].severity = "critical"
            /\ moderationQueue[i].status = "pending"

\* C3: a turn whose verdict is escalate, block or review has added exactly
\* one queue item and exactly one audit entry when it ends.
C3_OneQueueItemOneAuditEntry ==
  \A k \in Tasks :
    Ended(k) /\ loc[k].moderationResult.action \in {"escalate", "block", "review"}
    => did[k].queue = 1 /\ did[k].audit = 1

\* C4: for a verdict of review the response generator is never called, no
\* message is persisted and the turn does not end in responded.
C4_ReviewNeverAnswered ==
  \A k \in Tasks :
    loc[k].moderationResult.action = "review"
    => did[k].llm = 0 /\ did[k].message = 0 /\ Outcome(k) # "responded"

\* What C5 says of the step that takes task k past its verdict, when the
\* stored consent of its fan is not full at that step.
ConsentRequiredStep(k) ==
  /\ Ended(k)'
  /\ res'[k] = ConsentResponse
  /\ did'[k].llm = 0 /\ did'[k].conversation = 0 /\ did'[k].message = 0
  /\ conversations' = conversations
  /\ messages' = messages

\* C5 as stated: a text that matches no tier and holds no stop word, from an
\* existing fan without full consent, ends the turn in consent_required
\* with the fixed prompt, no generator call and no conversation or message
\* written.
C5_ConsentRequired_AnyPersona ==
  [][\A k \in Tasks :
       /\ Leaves(k, "verdict")
       /\ MatchesNoTier(req[k].message) /\ ~HasStopWord(req[k].message)
       /\ req[k].fanId \in KnownFans
       /\ ~HasFullConsent(req[k].fanId)
       => ConsentRequiredStep(k)]_vars

\* C5 as amended: the same for a request that names an existing persona.
C5_ConsentRequired ==
  [][\A k \in Tasks :
       /\ Leaves(k, "verdict")
       /\ MatchesNoTier(req[k].message) /\ ~HasStopWord(req[k].message)
       /\ req[k].fanId \in KnownFans /\ req[k].personaId \in KnownPersonas
       /\ ~HasFullConsent(req[k].fanId)
       => ConsentRequiredStep(k)]_vars

\* A turn of a fan who affirmed age but not romantic content has ended in
\* consent_required.
C5_Witness ==
  \E k \in Tasks :
    /\ Ended(k) /\ Outcome(k) = "consent_required"
    /\ MatchesNoTier(req[k].message) /\ ~HasStopWord(req[k].message)
    /\ req[k].fanId \in KnownFans /\ req[k].personaId \in KnownPersonas
    /\ fans[req[k].fanId].consentStatus.ageAffirmed
    /\ ~fans[req[k].fanId].consentStatus.romanticContent
    /\ did[k].gate = 1

\* C6: a text that matches no tier and holds no stop word, from an existing
\* fan to an existing persona, for which the generator answered (the gate
\* was passed), ends in responded whatever the answer: the fan message and
\* the AI message are in the pair's conversation and the reply is returned.
C6_AlwaysResponded ==
  \A k \in Tasks :
    /\ Ended(k)
    /\ MatchesNoTier(req[k].message) /\ ~HasStopWord(req[k].message)
    /\ req[k].fanId \in KnownFans /\ req[k].personaId \in KnownPersonas
    /\ did[k].llm = 1
    => /\ Outcome(k) = "responded"
       /\ res[k].message = loc[k].aiResponse.message
       /\ did[k].message = 2
       /\ \E i, j \in DOMAIN messages :
            /\ messages[i].conversationId = loc[k].conversation
            /\ messages[i].sender = "fan"
            /\ messages[i].content = req[k].message
            /\ messages[j].conversationId = loc[k].conversation
            /\ messages[j].sender = "ai"

\* C7: when a turn ends in stopped, the fan's boundaries are exactly
\* <<"stop_all_messages">>, the preferences are opted out and the turn
\* appended exactly one audit entry, tagged stop_request for that fan.
C7_StoppedMeansOptedOut ==
  \A k \in Tasks :
    Ended(k) /\ Outcome(k) = "stopped"
    => /\ req[k].fanId \in DOMAIN fans
       /\ fans[req[k].fanId].boundaries = <<"stop_all_messages">>
       /\ fans[req[k].fanId].preferences.opted_out
       /\ did[k].audit = 1
       /\ \E i \in DOMAIN auditLogs :
            /\ auditLogs[i].action = "stop_request"
            /\ auditLogs[i].entityId = req[k].fanId

\* C8: a queue item changes only when it is pending, and then only to
\* approved or blocked; every other resolution leaves the item as it was.
C8_OnlyPendingResolves ==
  [][\A i \in DOMAIN moderationQueue :
       moderationQueue'[i] # moderationQueue[i]
       => /\ moderationQueue[i].status = "pending"
          /\ moderationQueue'[i].status \in {"approved", "blocked"}]_vars

\* C9: at most one active conversation per (fan, persona) pair.
C9_OneActiveConversation ==
  \A f \in FanIds, p \in PersonaIds :
    Cardinality(getConversationByFanAndPersona(conversations, f, p)) <= 1

\* C10: at the steps that generate and persist an AI reply for a fan, the
\* fan's stored consent record has both flags true.
C10_ConsentAtReply ==
  [][\A k \in Tasks :
       Leaves(k, "generate") \/ Leaves(k, "store") \/ Leaves(k, "store_ai")
       => HasFullConsent(req[k].fanId)]_vars

\* C11: the audit trail is append-only: every entry of a state is at the
\* same place, unchanged, in the next state, and a step adds at most one.
C11_AuditAppendOnly ==
  [][/\ Len(auditLogs') \in {Len(auditLogs), Len(auditLogs) + 1}
     /\ \A i \in DOMAIN auditLogs : auditLogs'[i] = auditLogs[i]]_vars

\* Two turns and an affirmation have each appended an entry.
C11_Witness ==
  /\ Len(auditLogs) >= 3
  /\ \E i, j \in DOMAIN auditLogs :
       /\ i < j
       /\ auditLogs[i].action = "fan_interaction"
       /\ auditLogs[j].action = "stop_request"

\* The counts the score is defined on, and ten times the exact value of
\* 100 - min(100, 100 * (blocked + 2 * critical) / total) as a fraction
\* ExactNum / TotalCount.
TotalCount == Len(moderationQueue)
BlockedCount == CountStatus(moderationQueue, "blocked")
CriticalCount == CountSeverity(moderationQueue, "critical")
ExactNum ==
  1000 * TotalCount
  - (IF 1000 * (BlockedCount + 2 * CriticalCount) < 1000 * TotalCount
     THEN 1000 * (BlockedCount + 2 * CriticalCount) ELSE 1000 * TotalCount)
Answered == out.safety.status = 200

\* C12 as stated: the score computed from the queue equals the formula
\* exactly, is 100 on an empty queue and lies in [0, 100].
C12_ScoreExact ==
  Answered /\ ~out.safety.readFailed
  => /\ TotalCount = 0 => out.safety.complianceScore = 1000
     /\ TotalCount > 0 => out.safety.complianceScore * TotalCount = ExactNum
     /\ out.safety.complianceScore \in 0..1000

\* C12 as amended: when the queue read succeeds the score is the formula's
\* value rounded to one decimal (at most 0.05 away from it), 100 on an
\* empty queue and in [0, 100]; when the read fails it is 98.0.
C12_ScoreRounded ==
  Answered
  => /\ ~out.safety.readFailed /\ TotalCount = 0 => out.safety.complianceScore = 1000
     /\ ~out.safety.readFailed /\ TotalCount > 0
        => /\ 2 * (out.safety.complianceScore * TotalCount - ExactNum) <= TotalCount
           /\ 2 * (ExactNum - out.safety.complianceScore * TotalCount) <= TotalCount
     /\ out.safety.readFailed => out.safety.complianceScore = 980
     /\ out.safety.complianceScore \in 0..1000

\* The score of three items, one of them blocked and none critical, was
\* answered as 66.7.
C12_Witness ==
  /\ Answered /\ ~out.safety.readFailed
  /\ TotalCount = 3 /\ BlockedCount = 1 /\ CriticalCount = 0
  /\ out.safety.complianceScore = 667

\* C13: the score answered for a queue is at least the score of every
\* queue of the same size with as many or more blocked items and as many or
\* more critical items.
C13_ScoreMonotone ==
  Answered /\ ~out.safety.readFailed
  => \A q \in [1..TotalCount -> QueueItems] :
       /\ CountStatus(q, "blocked") >= BlockedCount
       /\ CountSeverity(q, "critical") >= CriticalCount
       => getComplianceScore(q, TRUE) <= out.safety.complianceScore

\* The score 66.7 was answered for three items with one blocked, and a
\* queue of three with one more critical item scores lower.
C13_Witness ==
  /\ Answered /\ ~out.safety.readFailed
  /\ TotalCount = 3 /\ BlockedCount = 1 /\ CriticalCount = 0
  /\ \E q \in [1..TotalCount -> QueueItems] :
       /\ CountStatus(q, "blocked") = BlockedCount
       /\ CountSeverity(q, "critical") = CriticalCount + 1
       /\ getComplianceScore(q, TRUE) < out.safety.complianceScore

\* The reply of the step that ends task k's turn when its side-effect
\* write succeeds.
ReplyWhenWritten(k) ==
  CASE pc[k] = "verdict" /\ loc[k].moderationResult.action = "block" ->
         BlockedResponse(loc[k].moderationResult.reason)
    [] pc[k] = "verdict" /\ loc[k].moderationResult.action = "escalate" ->
         EscalatedResponse
    [] pc[k] = "verdict" /\ loc[k].moderationResult.action \notin {"block", "escalate"}
                        /\ checkStopWords(req[k].message) ->
         StopResponse
    [] pc[k] = "respond" /\ loc[k].aiResponse.toolCalls = <<>> ->
         RepliedResponse(loc[k].aiResponse.message, loc[k].aiMessage)
    [] pc[k] = "respond" -> ErrorResponse
    [] OTHER -> res'[k]

\* C14: a failed queue write or audit write is only dropped.  The step that
\* classifies a message hands its verdict to the handler whether or not the
\* queue write failed, and a step that ends a turn in blocked, escalated,
\* stopped or responded sends the reply it sends when its write succeeds.
C14_SideEffectFailuresDropped ==
  [][\A k \in Tasks :
       /\ calls'.submit = calls.submit + 1 /\ k = FreeTask
          => /\ pc'[k] = "verdict"
             /\ loc'[k].moderationResult.action = Classify(lastIndex, req'[k].message).action
       /\ Leaves(k, "verdict") \/ Leaves(k, "respond")
          => res'[k] = ReplyWhenWritten(k)]_vars

\* A turn has ended in responded or in blocked although its audit write
\* failed: the turn counts one failed storage call and no audit entry.
C14_Witness ==
  \E k \in Tasks :
    /\ Ended(k) /\ did[k].fault = 1 /\ did[k].audit = 0
    /\ Outcome(k) \in {"responded", "blocked"}
    /\ loc[k].moderationResult.action \in {"allow", "block"}

\* C15: a turn that names an unknown fan or an unknown persona ends in
\* not found and has written nothing: no queue item, no audit entry, no fan
\* update, no conversation, no message, whatever its text.
C15_UnknownIdsNotFound ==
  \A k \in Tasks :
    Ended(k) /\ (req[k].fanId \notin KnownFans \/ req[k].personaId \notin KnownPersonas)
    => /\ Outcome(k) = "not_found"
       /\ did[k].queue = 0 /\ did[k].audit = 0 /\ did[k].fan = 0
       /\ did[k].conversation = 0 /\ did[k].message = 0

\* C16: a turn that ends in stopped has created no queue item, has not
\* consulted the consent gate, has not called the generator and has created
\* no conversation and no message.
C16_StopShortCircuits ==
  \A k \in Tasks :
    Ended(k) /\ Outcome(k) = "stopped"
    => /\ did[k].queue = 0 /\ did[k].gate = 0 /\ did[k].llm = 0
       /\ did[k].conversation = 0 /\ did[k].message = 0

\* C17: the consent gate is true exactly for an existing fan whose consent
\* record has both flags true, false when its read fails, and the step that
\* evaluates it changes no table.
C17_GateIffFullConsent ==
  [][/\ \A f \in FanIds, ok \in BOOLEAN :
          readConsentGate(fans, f, ok) <=> (ok /\ HasFullConsent(f))
     /\ \A k \in Tasks :
          pc[k] = "verdict" /\ did'[k].gate = did[k].gate + 1
          => /\ pc'[k] = "conversation" => HasFullConsent(req[k].fanId)
             /\ did'[k].fault = did[k].fault
                => (pc'[k] = "conversation" <=> HasFullConsent(req[k].fanId))
             /\ did'[k].fault # did[k].fault => res'[k] = ConsentResponse
             /\ UNCHANGED <<fans, conversations, messages, moderationQueue,
                            auditLogs, lastIndex>>]_vars

\* The gate was closed to a fan with both flags true because its read
\* failed: the turn ended in consent_required.
C17_Witness ==
  \E k \in Tasks :
    /\ Ended(k) /\ Outcome(k) = "consent_required"
    /\ did[k].gate = 1 /\ did[k].fault = 1
    /\ calls.affirm = 0
    /\ HasFullConsent(req[k].fanId)

C19_FallbackIsResponse ==
  \A k \in Tasks :
    Ended(k) /\ loc[k].completion = "error"
    => /\ Outcome(k) = "responded"
       /\ res[k].message = FallbackMessage
       /\ loc[k].aiResponse.toolCalls = <<>>
       /\ did[k].message = 2
       /\ \E i, j \in DOMAIN messages :
            /\ messages[i].conversationId = loc[k].conversation
            /\ messages[i].sender = "fan"
            /\ messages[i].content = req[k].message
            /\ j = res[k].messageId
            /\ messages[j].conversationId = loc[k].conversation
            /\ messages[j].sender = "ai"
            /\ messages[j].content = <<FallbackMessage>>

\* A turn whose generator call failed has answered the apology.
C19_Witness ==
  \E k \in Tasks :
    /\ Ended(k) /\ loc[k].completion = "error" /\ did[k].llm = 1
    /\ res[k].status = 200 /\ res[k].messageId > 0

\* C20: a turn that ends in blocked, escalated or consent_required, and a
\* turn of verdict review, has appended at least one audit entry when its
\* reply is returned.
C20_PolicyOutcomesAudited ==
  \A k \in Tasks :
    /\ Ended(k)
    /\ \/ Outcome(k) \in {"blocked", "escalated", "consent_required"}
       \/ loc[k].moderationResult.action = "review"
    => did[k].audit >= 1

\* C21: a block or escalate verdict is terminal for the turn: the response
\* generator is never called for the message, no conversation is created, no
\* fan or AI message is stored, and the turn ends with the fixed blocked
\* notice (block) or the fixed review notice (escalate).
C21_BlockEscalateTerminal ==
  \A k \in Tasks :
    loc[k].moderationResult.action \in {"block", "escalate"}
    => /\ did[k].llm = 0
       /\ did[k].conversation = 0
       /\ did[k].message = 0
       /\ pc[k] \in {"verdict", "done"}
       /\ Ended(k) =>
            res[k] = IF loc[k].moderationResult.action = "block"
                     THEN BlockedResponse(loc[k].moderationResult.reason)
                     ELSE EscalatedResponse

\* A blocked turn and an escalated turn have both ended.
C21_Witness ==
  \E j \in Tasks, k \in Tasks :
    /\ Ended(j) /\ loc[j].moderationResult.action = "block" /\ Outcome(j) = "blocked"
    /\ Ended(k) /\ loc[k].moderationResult.action = "escalate" /\ Outcome(k) = "escalated"

\* The continuation of task k's turn after an await: any step but the arrival
\* of a new request, with every storage call succeeding.
Continue(k) ==
  \/ BlockBranch(k, TRUE)
  \/ EscalateBranch(k, TRUE)
  \/ StopBranch(k, TRUE)
  \/ ConsentGate(k, TRUE)
  \/ GetConversation(k)
  \/ CreateConversation(k)
  \/ GenerateResponse(k)
  \/ StoreMessages(k)
  \/ Respond(k, TRUE)

\* Requests and consent affirmations under fair scheduling of the I/O steps:
\* the event loop runs the continuation of every await once its promise has
\* settled.
SpecLive == Init /\ [][Reply({1}) \/ Affirm]_vars /\ WF_vars(Continue(1))

PolicyOutcomes ==
  {"stopped", "blocked", "escalated", "consent_required", "responded", "not_found"}

\* C22: every received message is processed exactly once and runs to a
\* terminal state: under fair scheduling each accepted request ends, it ends
\* in one of stopped, blocked, escalated, consent_required, responded or
\* not_found with a reply text, never in an internal error, and no step of
\* the turn runs twice.
C22_RunsToOneTerminalState ==
  \A k \in Tasks :
    /\ (pc[k] \notin {"idle", "done"}) ~> Ended(k)
    /\ [](Ended(k) => Outcome(k) \in PolicyOutcomes /\ res[k].message # Null)
    /\ [](/\ did[k].gate <= 1
          /\ did[k].conversation <= 1
          /\ did[k].llm <= 1
          /\ did[k].message <= 2
          /\ did[k].fan <= 1
          /\ did[k].audit <= 1)

\* Task k's turn has stored the fan's message and, after it, the AI's
\* response in its conversation.
BothStored(k) ==
  /\ loc[k].aiMessage \in DOMAIN messages
  /\ messages[loc[k].aiMessage] =
       [conversationId |-> loc[k].conversation, sender |-> "ai",
        content |-> <<loc[k].aiResponse.message>>]
  /\ \E i \in 1..(loc[k].aiMessage - 1) :
       messages[i] = [conversationId |-> loc[k].conversation, sender |-> "fan",
                      content |-> req[k].message]

\* C23: in a responded turn the AI reply is stored before the reply is
\* returned, the audit entry of the exchange is written after both messages
\* are stored, and a failed audit write neither removes the stored messages
\* nor keeps the reply back; no reply is returned without a stored AI
\* message of the same text.
C23_StoredBeforeReturned ==
  /\ [](\A k \in Tasks :
         Ended(k) /\ Outcome(k) = "responded"
         => /\ BothStored(k)
            /\ res[k].messageId = loc[k].aiMessage
            /\ <<res[k].message>> = messages[res[k].messageId].content)
  /\ [][\A k \in Tasks :
         Leaves(k, "respond")
         => /\ BothStored(k)
            /\ did[k].message = 2
            /\ did[k].audit = 0
            /\ messages' = messages
            /\ loc[k].aiResponse.toolCalls = <<>>
               => res'[k] = RepliedResponse(loc[k].aiResponse.message, loc[k].aiMessage)]_vars

\* A turn whose audit write failed has ended responded with both messages
\* stored and no audit entry.
C23_Witness ==
  \E k \in Tasks :
    /\ Ended(k) /\ Outcome(k) = "responded"
    /\ did[k].fault = 1 /\ did[k].audit = 0
    /\ BothStored(k)
    /\ auditLogs = <<>>

\* The verdict the tier order gives a text: the highest tier with a pattern
\* that matches it.
TierVerdict(t) ==
  IF TierMatches(escalationPatterns, t) THEN [action |-> "escalate", severity |-> "critical"]
  ELSE IF TierMatches(bannedPatterns, t) THEN [action |-> "block", severity |-> "high"]
  ELSE IF TierMatches(suspiciousPatterns, t) THEN [action |-> "review", severity |-> "medium"]
  ELSE [action |-> "allow", severity |-> "low"]

\* Task k's message has been classified.
Classified(k) == loc[k].moderationResult.action # Null

\* C24: tier precedence: every classified text gets escalate (critical) if an
\* escalation pattern matches it, otherwise block (high) if a block-tier
\* pattern matches, otherwise review (medium) if a review-tier pattern
\* matches, otherwise allow (low); never the action of a lower tier than the
\* highest one it matches.
C24_TierPrecedence ==
  \A k \in Tasks :
    Classified(k)
    => /\ loc[k].moderationResult.action = TierVerdict(req[k].message).action
       /\ loc[k].moderationResult.severity = TierVerdict(req[k].message).severity

\* C25: the classifier is stateless: in every reachable state the verdict it
\* would return for a text is the one it returns on fresh patterns, and two
\* turns with the same text get the same verdict.
C25_ClassifierStateless ==
  /\ \A t \in Texts :
       LET now == Classify(lastIndex, t)
           fresh == Classify([id \in PatternIds |-> 0], t)
       IN now.action = fresh.action /\ now.severity = fresh.severity
  /\ \A j \in Tasks, k \in Tasks :
       Classified(j) /\ Classified(k) /\ req[j].message = req[k].message
       => /\ loc[j].moderationResult.action = loc[k].moderationResult.action
          /\ loc[j].moderationResult.severity = loc[k].moderationResult.severity

\* The tokens of a string: its maximal runs of characters other than the
\* space.
Tokens(str) ==
  {SubSeq(str, ij[1], ij[2]) : ij \in
     {ij \in (DOMAIN str) \X (DOMAIN str) :
        /\ ij[1] <= ij[2]
        /\ \A x \in ij[1]..ij[2] : str[x] # " "
        /\ ij[1] = 1 \/ str[ij[1] - 1] = " "
        /\ ij[2] = Len(str) \/ str[ij[2] + 1] = " "}}

\* The trimmed, lower-cased text has a stop word as a whole token.
HasStopToken(str) ==
  \E word \in stopWords : Spell(word) \in Tokens(trim(toLowerCaseString(str)))

C27_StopIsPartialUpdate ==
  [][\A k \in Tasks :
       Leaves(k, "verdict") /\ res'[k] = StopResponse
       => /\ DOMAIN fans' = DOMAIN fans
          /\ \A f \in DOMAIN fans :
               /\ fans'[f].consentStatus = fans[f].consentStatus
               /\ fans'[f].spendTier = fans[f].spendTier
               /\ HasFullConsent(f) => HasFullConsent(f)'
               /\ f # req[k].fanId => fans'[f] = fans[f]
               /\ f = req[k].fanId =>
                    /\ fans'[f].boundaries = <<"stop_all_messages">>
                    /\ fans'[f].preferences = [opted_out |-> TRUE]]_vars

\* A stop request of a fan who came fully consented has been processed: the
\* fan is opted out and still fully consented.
C27_Witness ==
  \E k \in Tasks :
    /\ Ended(k) /\ Outcome(k) = "stopped"
    /\ did[k].fan = 1
    /\ calls.affirm = 0
    /\ HasFullConsent(req[k].fanId)
    /\ fans[req[k].fanId].boundaries = <<"stop_all_messages">>
    /\ fans[req[k].fanId].spendTier = "free"

\* The fan has opted out of all messages.
OptedOut(f) == f \in DOMAIN fans /\ fans[f].boundaries = <<"stop_all_messages">>

\* C28: the opt-out is lasting: once a turn of a fan has ended in stopped, no
\* later turn of that fan calls the response generator, stores an AI message
\* or ends in responded.  Requests are handled one at a time here, so a turn
\* that runs while the fan is opted out started after the stop request ended.
C28_OptOutLasting ==
  [][\A k \in Tasks :
       OptedOut(req[k].fanId)
       => /\ ~Leaves(k, "generate")
          /\ ~Leaves(k, "store")
          /\ ~Leaves(k, "store_ai")
          /\ ~(Leaves(k, "respond") /\ TerminalState(res'[k]) = "responded")]_vars

\* C29: the compliance report of creator C over a window counts every audit
\* entry the message pipeline wrote inside the window for a turn addressed to
\* a persona of C: a report over the whole log, read after a blocked turn
\* for C's persona wrote its entry, has blockedMessages and
\* moderatedMessages at least 1, and after a responded turn
\* totalInteractions at least 1.
C29_ReportCountsPipelineEntries ==
  [][/\ out'.report # out.report
     /\ ~out'.report.readFailed
     /\ out'.report.startDate = 1
     /\ out'.report.endDate = Len(auditLogs)
     => \A k \in Tasks :
          /\ Ended(k)
          /\ did[k].audit = 1
          /\ req[k].personaId \in KnownPersonas
          /\ out'.report.creatorId = PersonaCreator[req[k].personaId]
          => /\ Outcome(k) = "blocked"
                => /\ out'.report.blockedMessages >= 1
                   /\ out'.report.moderatedMessages >= 1
             /\ Outcome(k) = "responded" => out'.report.totalInteractions >= 1]_vars

\* Two turns of the same fan and persona have both ended responded.
BothResponded(j, k) ==
  /\ j # k
  /\ Ended(j) /\ Outcome(j) = "responded"
  /\ Ended(k) /\ Outcome(k) = "responded"
  /\ req[j].fanId = req[k].fanId
  /\ req[j].personaId = req[k].personaId

\* The row the turn of task k stores for the fan's message.
FanRow(k) ==
  [conversationId |-> loc[k].conversation, sender |-> "fan", content |-> req[k].message]

\* C30: concurrent turns of the same fan and persona lose no messages: when
\* both have ended responded, the store holds the fan message and the AI
\* message of each turn, four rows, each attached to a conversation of the
\* pair; stored messages never change, and the step that updates the
\* conversation writes only the sentiment of the turn's own conversation.
C30_NoMessageLost ==
  /\ [](\A j \in Tasks, k \in Tasks :
         BothResponded(j, k)
         => /\ BothStored(j) /\ BothStored(k)
            /\ loc[j].aiMessage # loc[k].aiMessage
            /\ \E a \in DOMAIN messages, b \in DOMAIN messages :
                 a # b /\ messages[a] = FanRow(j) /\ messages[b] = FanRow(k)
            /\ Len(messages) = 4
            /\ \A i \in DOMAIN messages :
                 /\ messages[i].conversationId \in DOMAIN conversations
                 /\ conversations[messages[i].conversationId].fanId = req[k].fanId
                 /\ conversations[messages[i].conversationId].personaId = req[k].personaId)
  /\ [][/\ \A i \in DOMAIN messages : i \in DOMAIN messages' /\ messages'[i] = messages[i]
        /\ \A k \in Tasks :
             Leaves(k, "respond")
             => /\ messages' = messages
                /\ DOMAIN conversations' = DOMAIN conversations
                /\ \A c \in DOMAIN conversations :
                     /\ conversations'[c].fanId = conversations[c].fanId
                     /\ conversations'[c].personaId = conversations[c].personaId
                     /\ conversations'[c].isActive = conversations[c].isActive
                     /\ c # loc[k].conversation => conversations'[c] = conversations[c]]_vars

\* Two responded turns of one pair have interleaved at their inserts: the two
\* fan messages were stored before the two AI messages, in one conversation.
C30_Witness ==
  \E j \in Tasks, k \in Tasks :
    /\ BothResponded(j, k)
    /\ loc[j].conversation = loc[k].conversation
    /\ Len(messages) = 4
    /\ messages[1].sender = "fan" /\ messages[2].sender = "fan"
    /\ messages[3].sender = "ai" /\ messages[4].sender = "ai"

\* ------------------------------------------------- sequential specification

\* The requests handled one at a time, and consent affirmations.
NextSeq == Reply({1}) \/ Affirm

SpecSeq == Init /\ [][NextSeq]_vars

\* The requests handled one at a time, consent affirmations, and compliance
\* reports over the whole audit log or its latest entry.
Report ==
  \E creatorId \in Creators, startDate \in {1, Len(auditLogs)}, ok \in BOOLEAN :
    GenerateComplianceReport(creatorId, startDate, Len(auditLogs), ok)

NextReport == NextSeq \/ Report

SpecReport == Init /\ [][NextReport]_vars

====
